---- MODULE Spec2Model ----
(***************************************************************************)
(* Model of shell.c: a command interpreter with background tasks.          *)
(*                                                                         *)
(* The shell process reads a line, tokenizes it and dispatches it (main).  *)
(* runCommand forks an intermediate process, which forks a grandchild that *)
(* execs the command; the intermediate process waits for the grandchild,   *)
(* prints statistics and exits.  Background commands are tracked in the    *)
(* table bProcessIds/bProcessNames.                                        *)
(*                                                                         *)
(* A state of the model is taken while the shell process is blocked: in    *)
(* getline (pc = "prompt": the prompt has been printed), in wait(NULL)     *)
(* (pc = "fgwait"), or after it has returned from main (pc = "exited").    *)
(* A shell action is everything the shell does between two such points.    *)
(* The intermediate processes and the grandchildren take their own steps,  *)
(* interleaved with the shell's.                                           *)
(***************************************************************************)
EXTENDS Integers, Sequences, FiniteSets, TLC

(***************************************************************************)
(* Bounds of the exploration.                                              *)
(***************************************************************************)
\* lines the shell reads during the exploration
MaxCmds == 2
\* intermediate processes the scheduler lets run to the end (the others stay
\* runnable, or asleep in a program that does not terminate)
MaxScheduled == 2

(***************************************************************************)
(* Program constants.                                                      *)
(***************************************************************************)
BACKGROUND_PROCESS == 10
EXIT_FAILURE == 1
\* errno values the program sees
ENOENT == 2
ECHILD == 10
EAGAIN == 11
EACCES == 13
ENOTDIR == 20

Slots == 0 .. (BACKGROUND_PROCESS - 1)

\* the background jobs already running where SpecFull starts
Prefill == BACKGROUND_PROCESS - 1

\* a NULL char pointer: no token is empty, so the empty sequence is free
NULL == << >>

(***************************************************************************)
(* Input lines, as the characters getline returns.                         *)
(***************************************************************************)
NL == "\n"
SP == " "
DELIMITER == SP

T_exit == << "e", "x", "i", "t" >>
T_btasks == << "b", "t", "a", "s", "k", "s" >>
T_ap == << "a", "p" >>
T_cd == << "c", "d" >>
T_amp == << "&" >>
T_ls == << "l", "s" >>
T_sleep == << "s", "l", "e", "e", "p" >>

SleepLine == T_sleep \o << SP, "9", SP, "&", NL >>

Lines ==
    { << NL >>,
      << SP, NL >>,
      T_exit \o << NL >>,
      T_btasks \o << NL >>,
      T_ap \o << NL >>,
      T_cd \o << NL >>,
      T_cd \o << SP, "d", NL >>,
      T_cd \o << SP, "x", NL >>,
      T_cd \o << SP, "f", NL >>,
      T_cd \o << SP, "p", NL >>,
      T_ls \o << NL >>,
      T_ls \o << SP, SP, "&", NL >>,
      SleepLine,
      T_amp \o << NL >> }

(***************************************************************************)
(* getCommand: strtok over the buffer, the tokens stored in p_cmd.         *)
(***************************************************************************)
RECURSIVE strtok(_, _, _, _)
\* the tokens of buf from position i on; cur is the token being read
strtok(buf, i, cur, acc) ==
    IF i > Len(buf)
    THEN IF cur = << >> THEN acc ELSE Append(acc, cur)
    ELSE IF buf[i] = DELIMITER
         THEN strtok(buf, i + 1, << >>, IF cur = << >> THEN acc ELSE Append(acc, cur))
         ELSE strtok(buf, i + 1, Append(cur, buf[i]), acc)

\* the byte that ends a C string
NUL == ""

\* the positions of buf, from i on, where strtok finds the start of a token
RECURSIVE tokenOffsets(_, _, _)
tokenOffsets(buf, i, acc) ==
    IF i > Len(buf) THEN acc
    ELSE IF buf[i] # DELIMITER /\ (i = 1 \/ buf[i - 1] = DELIMITER)
         THEN tokenOffsets(buf, i + 1, Append(acc, i))
         ELSE tokenOffsets(buf, i + 1, acc)

\* the buffer once strtok has returned NULL: the delimiter that ended each
\* token has been overwritten with NUL
strtokBuffer(buf) ==
    [i \in 1 .. Len(buf) |->
        IF buf[i] = DELIMITER /\ i > 1 /\ buf[i - 1] # DELIMITER THEN NUL ELSE buf[i]]

\* the C string that starts at position off of the memory mem
RECURSIVE CString(_, _)
CString(mem, off) ==
    IF off > Len(mem) \/ mem[off] = NUL THEN << >>
    ELSE << mem[off] >> \o CString(mem, off + 1)

\* cmd: the tokens before the terminating NULL, as strcmp and execvp read
\* them; off: where each starts in the buffer (p_cmd[i] points there); mem:
\* the buffer getline allocated, as getCommand leaves it; set: whether
\* *p_cmdc was assigned (main declares cmdc without initializing it)
getCommand(line) ==
    IF line[1] = NL
    THEN [cmd |-> << >>, cmdc |-> 0, set |-> FALSE, off |-> << >>,
          mem |-> Append(line, NUL)]
    ELSE LET chars == Len(line)
             buffer == IF line[chars] = NL THEN SubSeq(line, 1, chars - 1) ELSE line
             toks == strtok(buffer, 1, << >>, << >>)
         IN  [cmd |-> toks, cmdc |-> Len(toks), set |-> TRUE,
              off |-> tokenOffsets(buffer, 1, << >>),
              mem |-> Append(strtokBuffer(buffer), NUL)]

\* cmd[k] of the NULL-initialized array (k counted from 0 as in the C code)
Arg(cmd, k) == IF k + 1 <= Len(cmd) THEN cmd[k + 1] ELSE NULL


\* the branch of main's if-chain the line takes
Dispatch(line) ==
    LET c == getCommand(line)
    IN  IF Arg(c.cmd, 0) = NULL THEN "continue"
        ELSE IF Arg(c.cmd, 0) = T_exit THEN "exit"
        ELSE IF Arg(c.cmd, 0) = T_btasks \/ Arg(c.cmd, 0) = T_ap THEN "btasks"
        ELSE IF Arg(c.cmd, 0) = T_cd THEN "cd"
        ELSE IF Arg(c.cmd, c.cmdc - 1) = T_amp THEN "background"
        ELSE "foreground"

\* the vector main passes to runCommand when getline has put the line in the
\* buffer b: pointers << buffer, offset >> to the tokens; for a background
\* line the last one (the ampersand) has been overwritten with NULL
Argv(line, b) ==
    LET c == getCommand(line)
        n == IF Dispatch(line) = "background" THEN c.cmdc - 1 ELSE c.cmdc
    IN  [k \in 1 .. n |-> << b, c.off[k] >>]

\* the strings the pointers of p_cmd point to in the memory mem
Copy(p_cmd, mem) == [k \in DOMAIN p_cmd |-> CString(mem[p_cmd[k][1]], p_cmd[k][2])]

\* what printf prints for %s: the C library prints (null) for a NULL pointer
printfString(mem, s) ==
    IF s = NULL THEN << "(", "n", "u", "l", "l", ")" >> ELSE CString(mem[s[1]], s[2])

(***************************************************************************)
(* State.                                                                  *)
(***************************************************************************)
VARIABLES
    pc,             \* where the shell process is blocked
    bProcessIds,    \* slot -> pid, 0 for an empty slot
    bProcessNames,  \* slot -> name pointer
    proc,           \* pid -> the intermediate process and its grandchild, for
                    \* the pids the outer forks have returned
    nextPid,        \* the pid the next successful outer fork returns
    errno,          \* errno of the shell process
    cwd,            \* working directory of the shell process
    ev,             \* what the shell did in its last action
    cmds,           \* lines read so far in the exploration
    heap            \* buffer -> the memory of the buffers getline allocated

vars == << pc, bProcessIds, bProcessNames, proc, nextPid, errno, cwd, ev, cmds, heap >>

NoProc ==
    [st |-> "none", code |-> 0, file |-> NULL, gc |-> "none", gcCode |-> 0,
     stats |-> FALSE, diag |-> FALSE, forkDiag |-> FALSE, argv |-> << >>]

\* ev.cmd: the branch taken; ev.pid: the pid the outer fork returned (0: no
\* fork, or fork failed); ev.reaped: the pid the shell's wait(NULL) returned;
\* ev.out: the lines the shell printed; ev.cleared: the <<slot, pid>> pairs
\* the reap passes of the action reset
Event(cmd, pid, out, cleared) ==
    [cmd |-> cmd, pid |-> pid, reaped |-> 0, out |-> out, cleared |-> cleared]

Init ==
    /\ pc = "prompt"
    /\ bProcessIds = [i \in Slots |-> 0]
    /\ bProcessNames = [i \in Slots |-> NULL]
    /\ proc = << >>
    /\ nextPid = 1
    /\ errno = 0
    /\ cwd = << "h" >>
    /\ ev = Event("start", 0, << >>, {})
    /\ cmds = 0
    /\ heap = << >>

(***************************************************************************)
(* Process states as the operating system sees them.                       *)
(***************************************************************************)
\* the intermediate process has not terminated
Running(r) == r.st \in {"forking", "waiting"}

\* the wait status of a process that called exit(code)
ExitStatus(code) == (code % 256) * 256

\* waitpid(pid, &status, WNOHANG) in the shell: a terminated child is reaped
\* and its status stored; for a running child (return 0) and for a pid that
\* is no child any more (return -1, ECHILD) status keeps the value it had
waitpid(pid, status, os, err) ==
    IF os[pid].st = "zombie"
    THEN [ret |-> pid, status |-> ExitStatus(os[pid].code),
          proc |-> [os EXCEPT ![pid].st = "reaped"], errno |-> err]
    ELSE IF Running(os[pid])
    THEN [ret |-> 0, status |-> status, proc |-> os, errno |-> err]
    ELSE [ret |-> -1, status |-> status, proc |-> os, errno |-> ECHILD]

\* what the storage of the uninitialized `status' may hold when
\* updateBackgroundProcess is entered: zero, or something else
Garbage == {0, 1}

(***************************************************************************)
(* The job table.                                                          *)
(***************************************************************************)
\* updateLoop with a bug: ++count is outside the else, so a slot that is
\* reset is counted too
RECURSIVE updateLoopCountsCleared(_, _, _, _, _, _, _)
updateLoopCountsCleared(i, ids, os, err, count, cleared, status) ==
    IF i >= BACKGROUND_PROCESS
    THEN [ids |-> ids, proc |-> os, errno |-> err, count |-> count, cleared |-> cleared]
    ELSE IF ids[i] # 0
    THEN LET w == waitpid(ids[i], status, os, err)
         IN  IF w.status = 0
             THEN updateLoopCountsCleared(i + 1, [ids EXCEPT ![i] = 0], w.proc, w.errno,
                                          count + 1, cleared \cup {<< i, ids[i] >>},
                                          w.status)
             ELSE updateLoopCountsCleared(i + 1, ids, w.proc, w.errno, count + 1,
                                          cleared, w.status)
    ELSE updateLoopCountsCleared(i + 1, ids, os, err, count, cleared, status)

\* the loop of updateBackgroundProcess from slot i on.  status is declared
\* in the loop body and never initialized: what is read after a waitpid that
\* stored nothing is what its storage held before, the garbage of the entry
\* or the status an earlier iteration got.
RECURSIVE updateLoop(_, _, _, _, _, _, _)
updateLoop(i, ids, os, err, count, cleared, status) ==
    IF i >= BACKGROUND_PROCESS
    THEN [ids |-> ids, proc |-> os, errno |-> err, count |-> count, cleared |-> cleared]
    ELSE IF ids[i] # 0
    THEN LET w == waitpid(ids[i], status, os, err)
         IN  IF w.status = 0
             THEN updateLoop(i + 1, [ids EXCEPT ![i] = 0], w.proc, w.errno, count,
                             cleared \cup {<< i, ids[i] >>}, w.status)
             ELSE updateLoop(i + 1, ids, w.proc, w.errno, count + 1, cleared, w.status)
    ELSE updateLoop(i + 1, ids, os, err, count, cleared, status)

updateBackgroundProcess(ids, os, err, g) == updateLoop(0, ids, os, err, 0, {}, g)

\* the lines listBackgroundProcess prints for the slots from i on
RECURSIVE listLoop(_, _, _, _)
listLoop(i, ids, names, mem) ==
    IF i >= BACKGROUND_PROCESS THEN << >>
    ELSE IF ids[i] # 0
    THEN << << "job", i, ids[i], printfString(mem, names[i]) >> >>
         \o listLoop(i + 1, ids, names, mem)
    ELSE listLoop(i + 1, ids, names, mem)

listBackgroundProcess(ids, names, os, err, g, mem) ==
    LET u == updateBackgroundProcess(ids, os, err, g)
    IN  [ids |-> u.ids, proc |-> u.proc, errno |-> u.errno, cleared |-> u.cleared,
         out |-> listLoop(0, u.ids, names, mem)]

\* addLoop with a bug: a full table gives up its last slot to the new job
RECURSIVE addLoopOverwrite(_, _, _, _, _)
addLoopOverwrite(i, ids, names, p_pid, p_cmdName) ==
    IF i >= BACKGROUND_PROCESS
    THEN [ids |-> [ids EXCEPT ![BACKGROUND_PROCESS - 1] = p_pid],
          names |-> [names EXCEPT ![BACKGROUND_PROCESS - 1] = p_cmdName],
          out |-> << << "added", BACKGROUND_PROCESS - 1, p_pid, NULL >> >>]
    ELSE IF ids[i] = 0
    THEN [ids |-> [ids EXCEPT ![i] = p_pid],
          names |-> [names EXCEPT ![i] = p_cmdName],
          out |-> << << "added", i, p_pid, NULL >> >>]
    ELSE addLoopOverwrite(i + 1, ids, names, p_pid, p_cmdName)

\* addLoop with a bug: the scan starts at slot 1
RECURSIVE addLoopFromOne(_, _, _, _, _)
addLoopFromOne(i, ids, names, p_pid, p_cmdName) ==
    IF i >= BACKGROUND_PROCESS
    THEN [ids |-> ids, names |-> names, out |-> << >>]
    ELSE IF ids[i] = 0 /\ i >= 1
    THEN [ids |-> [ids EXCEPT ![i] = p_pid],
          names |-> [names EXCEPT ![i] = p_cmdName],
          out |-> << << "added", i, p_pid, NULL >> >>]
    ELSE addLoopFromOne(i + 1, ids, names, p_pid, p_cmdName)

\* the insertion loop of addBackgroundProcess from slot i on
RECURSIVE addLoop(_, _, _, _, _)
addLoop(i, ids, names, p_pid, p_cmdName) ==
    IF i >= BACKGROUND_PROCESS
    THEN [ids |-> ids, names |-> names, out |-> << >>]
    ELSE IF ids[i] = 0
    THEN [ids |-> [ids EXCEPT ![i] = p_pid],
          names |-> [names EXCEPT ![i] = p_cmdName],
          out |-> << << "added", i, p_pid, NULL >> >>]
    ELSE addLoop(i + 1, ids, names, p_pid, p_cmdName)

addBackgroundProcess(p_pid, p_cmdName, ids, names, os, err, g) ==
    LET u == updateBackgroundProcess(ids, os, err, g)
        a == addLoop(0, u.ids, names, p_pid, p_cmdName)
    IN  [ids |-> a.ids, names |-> a.names, proc |-> u.proc, errno |-> u.errno,
         cleared |-> u.cleared, out |-> a.out]


(***************************************************************************)
(* runBuiltinCd.                                                           *)
(***************************************************************************)
\* chdir(path): 0 on success, else the errno it sets.  The directories of
\* the model: d exists, x does not, f is a file, p may not be searched.
chdir(p_path) ==
    IF p_path = << "d" >> THEN 0
    ELSE IF p_path = << "f" >> THEN ENOTDIR
    ELSE IF p_path = << "p" >> THEN EACCES
    ELSE ENOENT

runBuiltinCd(p_path, e, dir) ==
    IF p_path = NULL
    THEN [errno |-> e, cwd |-> dir, out |-> << << "cd-usage", 0, 0, NULL >> >>]
    ELSE LET rc == chdir(p_path)
             \* chdir sets errno only when it fails
             err == IF rc = 0 THEN e ELSE rc
             errorMsg == IF err = ENOENT THEN "ENOENT"
                         ELSE IF err = EACCES THEN "EACCES"
                         ELSE IF err = ENOTDIR THEN "ENOTDIR"
                         ELSE "Unhandled"
         IN  [errno |-> err,
              cwd |-> IF rc = 0 THEN p_path ELSE dir,
              out |-> IF err # 0 THEN << << errorMsg, 0, 0, p_path >> >> ELSE << >>]

(***************************************************************************)
(* The shell process: one action per branch of main's loop.                *)
(***************************************************************************)
\* the buffers some name of the table points into
Referenced(names) == {names[i][1] : i \in {j \in Slots : names[j] # NULL}}

\* the buffer malloc returns when the buffers of the set live are allocated
malloc(live) == CHOOSE b \in 1 .. (Cardinality(live) + 1) : b \notin live

\* getline with a bug: buffer is static, so every line is read into the
\* buffer of the first one
getlineStaticBuffer(h, names, line) ==
    LET live == Referenced(names)
        b == 1
    IN  [buf |-> b,
         heap |-> [x \in live \cup {b} |-> IF x = b THEN getCommand(line).mem ELSE h[x]]]

\* getline(&buffer, ...) with buffer == NULL: a new buffer is allocated for
\* every line and no buffer is ever freed.  The model keeps the buffers a
\* name points into; main has lost every pointer to the others (cmd and
\* buffer are locals of an iteration that has ended), so they are dropped.
getline(h, names, line) ==
    LET live == Referenced(names)
        b == malloc(live)
    IN  [buf |-> b,
         heap |-> [x \in live \cup {b} |-> IF x = b THEN getCommand(line).mem ELSE h[x]]]

\* the buffer of the line getCommand returns in the current state
Buffer(line) == getline(heap, bProcessNames, line).buf

\* getline returns one more line, which main sends to the given branch
Read(line, branch) ==
    /\ pc = "prompt"
    /\ cmds < MaxCmds
    /\ Dispatch(line) = branch
    /\ cmds' = cmds + 1
    /\ heap' = getline(heap, bProcessNames, line).heap

\* cmd[0] == NULL: continue
CmdContinue(line) ==
    /\ Read(line, "continue")
    /\ ev' = Event("continue", 0, << >>, {})
    /\ UNCHANGED << pc, bProcessIds, bProcessNames, proc, nextPid, errno, cwd >>

\* exit: list the jobs, count them, and return from main if there is none
CmdExit(line) ==
    /\ Read(line, "exit")
    /\ \E g1 \in Garbage :
          LET l == listBackgroundProcess(bProcessIds, bProcessNames, proc, errno, g1, heap')
          IN  \E g2 \in Garbage :
                 LET u == updateBackgroundProcess(l.ids, l.proc, l.errno, g2)
                     bCount == u.count
                 IN  /\ bProcessIds' = u.ids
                     /\ proc' = u.proc
                     /\ errno' = u.errno
                     /\ IF bCount # 0
                        THEN /\ pc' = "prompt"
                             /\ ev' = Event("exit", 0,
                                            l.out \o << << "count", bCount, 0, NULL >> >>,
                                            l.cleared \cup u.cleared)
                        ELSE /\ pc' = "exited"
                             /\ ev' = Event("exit", 0, l.out, l.cleared \cup u.cleared)
    /\ UNCHANGED << bProcessNames, nextPid, cwd >>

\* btasks, ap: list the jobs
CmdBtasks(line) ==
    /\ Read(line, "btasks")
    /\ \E g \in Garbage :
          LET l == listBackgroundProcess(bProcessIds, bProcessNames, proc, errno, g, heap')
          IN  /\ bProcessIds' = l.ids
              /\ proc' = l.proc
              /\ errno' = l.errno
              /\ ev' = Event("btasks", 0, l.out, l.cleared)
    /\ UNCHANGED << pc, bProcessNames, nextPid, cwd >>

\* cd
CmdCd(line) ==
    /\ Read(line, "cd")
    /\ LET r == runBuiltinCd(Arg(getCommand(line).cmd, 1), errno, cwd)
       IN  /\ errno' = r.errno
           /\ cwd' = r.cwd
           /\ ev' = Event("cd", 0, r.out, {})
    /\ UNCHANGED << pc, bProcessIds, bProcessNames, proc, nextPid >>

\* the process a successful outer fork creates: it runs runCommand's
\* pid == 0 branch with its own copy of the strings of p_cmd
Forked(p_cmd) ==
    [NoProc EXCEPT !.st = "forking", !.file = Arg(p_cmd, 0), !.argv = p_cmd]

\* runCommand with a bug: the shell waits after a background launch too
runCommandAlwaysWaits(p_cmd, p_isBackground) ==
    \/ \* fork() == -1
       /\ pc' = "prompt"
       /\ errno' = EAGAIN
       /\ ev' = Event(IF p_isBackground THEN "background" ELSE "foreground", 0,
                      << << "fork-error", 0, 0, NULL >> >>, {})
       /\ UNCHANGED << bProcessIds, bProcessNames, proc, nextPid >>
    \/ \* fork() returned the pid of the intermediate process
       /\ LET pid == nextPid
              os == Append(proc, Forked(Copy(p_cmd, heap')))
          IN  /\ nextPid' = nextPid + 1
              /\ IF p_isBackground
                 THEN \E g \in Garbage :
                         LET a == addBackgroundProcess(pid, Arg(p_cmd, 0), bProcessIds,
                                                       bProcessNames, os, errno, g)
                         IN  /\ bProcessIds' = a.ids
                             /\ bProcessNames' = a.names
                             /\ proc' = a.proc
                             /\ errno' = a.errno
                             /\ pc' = "fgwait"
                             /\ ev' = Event("background", pid, a.out, a.cleared)
                 ELSE /\ proc' = os
                      /\ pc' = "fgwait"
                      /\ ev' = Event("foreground", pid, << >>, {})
                      /\ UNCHANGED << bProcessIds, bProcessNames, errno >>

\* runCommand with a bug: pid == -1 is not tested, so a failed fork takes the
\* branch of the parent
runCommandIgnoresForkFailure(p_cmd, p_isBackground) ==
    \/ \* fork() == -1
       /\ errno' = EAGAIN
       /\ UNCHANGED << proc, nextPid >>
       /\ IF p_isBackground
          THEN LET a == addLoop(0, bProcessIds, bProcessNames, -1, Arg(p_cmd, 0))
               IN  /\ bProcessIds' = a.ids
                   /\ bProcessNames' = a.names
                   /\ pc' = "prompt"
                   /\ ev' = Event("background", 0, a.out, {})
          ELSE /\ pc' = "fgwait"
               /\ ev' = Event("foreground", 0, << >>, {})
               /\ UNCHANGED << bProcessIds, bProcessNames >>
    \/ \* fork() returned the pid of the intermediate process
       /\ LET pid == nextPid
              os == Append(proc, Forked(Copy(p_cmd, heap')))
          IN  /\ nextPid' = nextPid + 1
              /\ IF p_isBackground
                 THEN \E g \in Garbage :
                         LET a == addBackgroundProcess(pid, Arg(p_cmd, 0), bProcessIds,
                                                       bProcessNames, os, errno, g)
                         IN  /\ bProcessIds' = a.ids
                             /\ bProcessNames' = a.names
                             /\ proc' = a.proc
                             /\ errno' = a.errno
                             /\ pc' = "prompt"
                             /\ ev' = Event("background", pid, a.out, a.cleared)
                 ELSE /\ proc' = os
                      /\ pc' = "fgwait"
                      /\ ev' = Event("foreground", pid, << >>, {})
                      /\ UNCHANGED << bProcessIds, bProcessNames, errno >>

\* runCommand in the shell process
runCommand(p_cmd, p_isBackground) ==
    \/ \* fork() == -1
       /\ pc' = "prompt"
       /\ errno' = EAGAIN
       /\ ev' = Event(IF p_isBackground THEN "background" ELSE "foreground", 0,
                      << << "fork-error", 0, 0, NULL >> >>, {})
       /\ UNCHANGED << bProcessIds, bProcessNames, proc, nextPid >>
    \/ \* fork() returned the pid of the intermediate process
       /\ LET pid == nextPid
              os == Append(proc, Forked(Copy(p_cmd, heap')))
          IN  /\ nextPid' = nextPid + 1
              /\ IF p_isBackground
                 THEN \E g \in Garbage :
                         LET a == addBackgroundProcess(pid, Arg(p_cmd, 0), bProcessIds,
                                                       bProcessNames, os, errno, g)
                         IN  /\ bProcessIds' = a.ids
                             /\ bProcessNames' = a.names
                             /\ proc' = a.proc
                             /\ errno' = a.errno
                             /\ pc' = "prompt"
                             /\ ev' = Event("background", pid, a.out, a.cleared)
                 ELSE /\ proc' = os
                      /\ pc' = "fgwait"
                      /\ ev' = Event("foreground", pid, << >>, {})
                      /\ UNCHANGED << bProcessIds, bProcessNames, errno >>

\* <cmd> &
CmdBackground(line) ==
    /\ Read(line, "background")
    /\ runCommand(Argv(line, Buffer(line)), TRUE)
    /\ UNCHANGED cwd

\* <cmd>
CmdForeground(line) ==
    /\ Read(line, "foreground")
    /\ runCommand(Argv(line, Buffer(line)), FALSE)
    /\ UNCHANGED << cwd >>

\* wait(NULL) of a foreground runCommand returns: it reaps any terminated
\* child of the shell
FgWait(p) ==
    /\ pc = "fgwait"
    /\ proc[p].st = "zombie"
    /\ proc' = [proc EXCEPT ![p].st = "reaped"]
    /\ ev' = [ev EXCEPT !.reaped = p]
    /\ pc' = "prompt"
    /\ UNCHANGED << bProcessIds, bProcessNames, nextPid, errno, cwd, cmds, heap >>

(***************************************************************************)
(* The intermediate process and the grandchild (runCommand, pid == 0).     *)
(***************************************************************************)
\* the programs of the model: ls terminates; sleep is still asleep when the
\* exploration ends
Terminates(file) == file # T_sleep

\* the intermediate process waits for a grandchild that does not terminate
Asleep(r) == r.st = "waiting" /\ r.gc = "running" /\ ~Terminates(r.file)

\* the intermediate processes that have run so far and are not asleep
Scheduled == {p \in DOMAIN proc : proc[p].st # "forking" /\ ~Asleep(proc[p])}

CanRun(p) == proc[p].st # "forking" \/ Cardinality(Scheduled) < MaxScheduled

ChildFrame == UNCHANGED << pc, bProcessIds, bProcessNames, nextPid, errno, cwd, ev,
                           cmds, heap >>

\* the exit code a process that calls exit(n) terminates with
ExitCode(n) == n % 256

\* innerForkFailed with a bug: no exit after the report, so the process goes
\* on to the wait, which fails at once, prints the statistics and exits with 0
innerForkFailedFallsThrough(r) ==
    [r EXCEPT !.st = "zombie", !.code = ExitCode(0), !.forkDiag = TRUE, !.stats = TRUE]

\* what the intermediate process does once its fork has returned -1: it
\* prints the error and calls exit(EXIT_FAILURE)
innerForkFailed(r) ==
    [r EXCEPT !.st = "zombie", !.code = ExitCode(EXIT_FAILURE), !.forkDiag = TRUE]

\* childPid = fork() in the intermediate process
InnerFork(p) ==
    /\ proc[p].st = "forking"
    /\ CanRun(p)
    /\ \/ \* childPid == -1
          proc' = [proc EXCEPT ![p] = innerForkFailed(proc[p])]
       \/ \* the grandchild exists
          proc' = [proc EXCEPT ![p].st = "waiting", ![p].gc = "exec"]
    /\ ChildFrame

\* execFailed with a bug: no exit after the report, so the grandchild returns
\* from runCommand into the loop of main
execFailedReturns(r, err) ==
    [r EXCEPT !.gc = "loop", !.diag = TRUE]

\* execFailed with a bug: the grandchild reports the failure and exits with 0
execFailedExitsZero(r, err) ==
    [r EXCEPT !.gc = "zombie", !.gcCode = ExitCode(0), !.diag = TRUE]

\* what the grandchild does once execvp has returned err: it prints the
\* diagnostic and calls exit(err)
execFailed(r, err) ==
    [r EXCEPT !.gc = "zombie", !.gcCode = ExitCode(err), !.diag = TRUE]

\* execvp in the grandchild
GcExec(p) ==
    /\ proc[p].gc = "exec"
    /\ \/ \* the program runs
          /\ proc[p].file # NULL
          /\ proc' = [proc EXCEPT ![p].gc = "running"]
       \/ \* execvp returned -1
          proc' = [proc EXCEPT ![p] = execFailed(proc[p], -1)]
    /\ ChildFrame

\* the program the grandchild runs terminates
GcExit(p) ==
    /\ proc[p].gc = "running"
    /\ Terminates(proc[p].file)
    /\ proc' = [proc EXCEPT ![p].gc = "zombie", ![p].gcCode = ExitCode(0)]
    /\ ChildFrame

\* IntermediateWait with a bug: the wait does not block, so the process
\* prints the statistics and exits whatever its grandchild is doing
IntermediateDoesNotWait(p) ==
    /\ proc[p].st = "waiting"
    /\ proc' = [proc EXCEPT ![p].gc = IF @ = "zombie" THEN "reaped" ELSE @,
                            ![p].stats = TRUE,
                            ![p].st = "zombie", ![p].code = ExitCode(0)]
    /\ ChildFrame

\* wait(NULL) in the intermediate process returns; the process prints the
\* statistics and calls exit(0)
IntermediateWait(p) ==
    /\ proc[p].st = "waiting"
    /\ proc[p].gc = "zombie"
    /\ proc' = [proc EXCEPT ![p].gc = "reaped", ![p].stats = TRUE,
                            ![p].st = "zombie", ![p].code = ExitCode(0)]
    /\ ChildFrame

Next ==
    \/ \E line \in Lines : CmdContinue(line)
    \/ \E line \in Lines : CmdExit(line)
    \/ \E line \in Lines : CmdBtasks(line)
    \/ \E line \in Lines : CmdCd(line)
    \/ \E line \in Lines : CmdBackground(line)
    \/ \E line \in Lines : CmdForeground(line)
    \/ \E p \in DOMAIN proc : FgWait(p)
    \/ \E p \in DOMAIN proc : InnerFork(p)
    \/ \E p \in DOMAIN proc : GcExec(p)
    \/ \E p \in DOMAIN proc : GcExit(p)
    \/ \E p \in DOMAIN proc : IntermediateWait(p)

Spec == Init /\ [][Next]_vars

(***************************************************************************)
(* The same program, explored from the state it is in after Prefill lines  *)
(* "sleep 9 &" whose grandchildren are asleep: the table has one empty     *)
(* slot left.                                                              *)
(***************************************************************************)
Sleeper ==
    [Forked(<< T_sleep, << "9" >> >>) EXCEPT !.st = "waiting", !.gc = "running"]

InitFull ==
    /\ pc = "prompt"
    /\ bProcessIds = [i \in Slots |-> IF i < Prefill THEN i + 1 ELSE 0]
    /\ bProcessNames = [i \in Slots |-> IF i < Prefill THEN << i + 1, 1 >> ELSE NULL]
    /\ proc = [p \in 1 .. Prefill |-> Sleeper]
    /\ nextPid = Prefill + 1
    /\ errno = 0
    /\ cwd = << "h" >>
    /\ ev = Event("background", Prefill, << << "added", Prefill - 1, Prefill, NULL >> >>,
                  {})
    /\ cmds = 0
    /\ heap = [b \in 1 .. Prefill |-> getCommand(SleepLine).mem]

SpecFull == InitFull /\ [][Next]_vars

(***************************************************************************)
(* The operating system schedules every process that can run: a process    *)
(* whose wait can return does return.                                      *)
(***************************************************************************)
FairSpec ==
    /\ Spec
    /\ WF_vars(\E p \in DOMAIN proc : IntermediateWait(p))
    /\ WF_vars(\E p \in DOMAIN proc : FgWait(p))

(***************************************************************************)
(* Properties.                                                             *)
(***************************************************************************)
\* the pids the outer forks have returned so far
Launched == DOMAIN proc

\* the shell is back in getline after a foreground runCommand whose outer
\* fork succeeded
ForegroundReturned == pc = "prompt" /\ ev.cmd = "foreground" /\ ev.pid # 0

\* the inner fork of the intermediate process succeeded
BothForksSucceeded(r) == r.gc # "none"

\* the last action of the shell ran a reap pass
RegistryOperation ==
    \/ ev.cmd \in {"btasks", "exit"}
    \/ ev.cmd = "background" /\ ev.pid # 0

\* the job lines of the last action
JobLines == {k \in 1 .. Len(ev.out) : ev.out[k][1] = "job"}

\* C1: a foreground runCommand returns only after the intermediate process
\* it forked has terminated, and the child its wait reaped is that process.
C1_ForegroundWaitsForItsChild ==
    ForegroundReturned => ev.reaped = ev.pid /\ ~Running(proc[ev.pid])

\* a foreground command came back while its intermediate process still runs:
\* the wait reaped a background job that had exited
C1_ReapedAnotherChild ==
    /\ ForegroundReturned
    /\ ev.reaped # ev.pid
    /\ Running(proc[ev.pid])
    /\ \E i \in Slots : bProcessIds[i] = ev.reaped

\* C2: when the shell shows the prompt after a foreground command whose two
\* forks succeeded, the statistics of that command have been printed.
C2_StatisticsBeforePrompt ==
    ForegroundReturned /\ BothForksSucceeded(proc[ev.pid]) => proc[ev.pid].stats

\* C3: no slot is reset while the process it tracks is still running.
C3_ClearedOnlyWhenNotRunning ==
    \A c \in ev.cleared : ~Running(proc[c[2]])

\* C4: after a registry operation no slot tracks a process that had exited
\* before it, and no line of the listing shows a pid whose slot was reset.
C4_ExitedJobsAreFreed ==
    /\ RegistryOperation =>
          \A i \in Slots : bProcessIds[i] # 0 => proc[bProcessIds[i]].st # "reaped"
    /\ \A k \in JobLines :
          \/ bProcessIds[ev.out[k][2]] = ev.out[k][3]
          \/ ev.cmd = "exit" /\ << ev.out[k][2], ev.out[k][3] >> \in ev.cleared

\* C5: exit does not terminate the shell while the process of a tracked job
\* is running; it prints the count and the shell is back at the prompt.
C5_ExitRefusedWhileJobsRun ==
    /\ pc = "exited" => \A c \in ev.cleared : ~Running(proc[c[2]])
    /\ ev.cmd = "exit" /\ pc = "prompt" =>
          /\ Len(ev.out) > 0
          /\ ev.out[Len(ev.out)][1] = "count"
          /\ ev.out[Len(ev.out)][2] > 0

\* C6: exit is refused only if the process of some tracked job had not
\* exited when exit was typed.
C6_ExitWhenAllJobsExited ==
    ev.cmd = "exit" /\ pc = "prompt" =>
        \E i \in Slots : bProcessIds[i] # 0 /\ proc[bProcessIds[i]].st # "reaped"

\* C7: after n <= 10 background launches and no exit, the listing has n
\* lines with n different slots.  (A foreground command returns only when a
\* process has exited, so if every launched process runs, every launch was a
\* background one.)
C7_ListShowsEveryLaunch ==
    ( /\ ev.cmd = "btasks"
      /\ nextPid - 1 <= BACKGROUND_PROCESS
      /\ \A p \in Launched : Running(proc[p]) )
    => /\ Len(ev.out) = nextPid - 1
       /\ \A k, m \in JobLines : ev.out[k][2] = ev.out[m][2] => k = m

\* the slots that hold a job
Occupied(ids) == {i \in Slots : ids[i] # 0}

\* C8: a background launch that finds the 10 slots occupied after its reap
\* pass changes no pid and no name, leaves 10 slots occupied and prints no
\* announcement.
C8_FullTableDropsLaunch ==
    [][ ( /\ nextPid' = nextPid + 1
          /\ ev'.cmd = "background"
          /\ Occupied(bProcessIds) = Slots
          /\ ev'.cleared = {} )
        => /\ bProcessIds' = bProcessIds
           /\ bProcessNames' = bProcessNames
           /\ Cardinality(Occupied(bProcessIds')) = BACKGROUND_PROCESS
           /\ ev'.out = << >> ]_vars

\* a background launch has been dropped: its pid is in no slot
C8_LaunchDropped ==
    /\ ev.cmd = "background"
    /\ ev.pid # 0
    /\ ev.cleared = {}
    /\ ev.out = << >>
    /\ Occupied(bProcessIds) = Slots
    /\ \A i \in Slots : bProcessIds[i] # ev.pid

\* C9: the shell is blocked in a wait only inside a foreground runCommand
\* whose fork succeeded; a background launch and the reap passes of the
\* registry operations leave it at the prompt (or out of main).
C9_OnlyForegroundBlocks ==
    /\ pc = "fgwait" => ev.cmd = "foreground" /\ ev.pid # 0 /\ ev.reaped = 0
    /\ ev.cmd = "background" /\ ev.pid # 0 =>
          /\ pc # "fgwait"
          /\ ev.out # << >> => bProcessIds[ev.out[1][2]] = ev.pid

\* a background launch has returned to the prompt with the job recorded
\* while the intermediate process waits for its running grandchild
C9_BackgroundReturnedWhileRunning ==
    /\ pc = "prompt"
    /\ ev.cmd = "background"
    /\ ev.pid # 0
    /\ proc[ev.pid].st = "waiting"
    /\ proc[ev.pid].gc = "running"
    /\ \E i \in Slots : bProcessIds[i] = ev.pid

\* what holds of a command whose execvp failed
ExecFailureHandled ==
    /\ \A p \in DOMAIN proc :
          proc[p].diag =>
             /\ proc[p].gc \in {"zombie", "reaped"}
             /\ proc[p].gcCode # 0
             /\ ~Running(proc[p]) => proc[p].stats /\ proc[p].gc = "reaped"
                                     /\ proc[p].code = 0
    /\ \A p \in DOMAIN proc : proc[p].stats => proc[p].gc = "reaped"
    /\ pc = "exited" => ev.cmd = "exit"

\* C10: after a failed execvp the grandchild has printed the diagnostic and
\* exited with a non-zero code, never to run again; the intermediate process
\* terminates only after it has waited for it and printed the statistics;
\* the shell leaves main only by exit, and a shell waiting for that command
\* gets back to the prompt.
C10_ExecFailure ==
    /\ []ExecFailureHandled
    /\ (pc = "fgwait" /\ proc[ev.pid].diag) ~> (pc = "prompt")

\* the shell is back at the prompt after a foreground command whose execvp
\* failed and whose statistics were printed
C10_PromptAfterExecFailure ==
    /\ ForegroundReturned
    /\ ev.reaped = ev.pid
    /\ proc[ev.pid].diag
    /\ proc[ev.pid].gcCode # 0
    /\ proc[ev.pid].stats

\* the last action of the shell was a runCommand whose outer fork failed
OuterForkFailed == ev.cmd \in {"background", "foreground"} /\ ev.pid = 0

\* C11: a runCommand whose outer fork fails reports the error, creates no
\* process, leaves every slot and name as it was, does not wait, and leaves
\* the shell at its next prompt.
C11_OuterForkFailureAbandons ==
    [][ cmds' = cmds + 1 /\ OuterForkFailed'
        => /\ ev'.out = << << "fork-error", 0, 0, NULL >> >>
           /\ proc' = proc
           /\ nextPid' = nextPid
           /\ bProcessIds' = bProcessIds
           /\ bProcessNames' = bProcessNames
           /\ ev'.cleared = {}
           /\ ev'.reaped = 0
           /\ pc' = "prompt" ]_vars

\* the outer fork of a background request has failed while an earlier job is
\* in the table
C11_BackgroundForkFailed ==
    /\ OuterForkFailed
    /\ ev.cmd = "background"
    /\ pc = "prompt"
    /\ Occupied(bProcessIds) # {}
    /\ \A i \in Slots : bProcessIds[i] \in DOMAIN proc \cup {0}

\* the inner fork of the intermediate process failed
InnerForkFailed(r) == r.st # "forking" /\ r.gc = "none"

\* C12: an intermediate process whose inner fork failed has reported it and
\* terminated with a non-zero exit code; it has no grandchild, the command
\* was not executed and no statistics were printed.
C12_InnerForkFailure ==
    \A p \in DOMAIN proc :
       /\ proc[p].forkDiag = InnerForkFailed(proc[p])
       /\ InnerForkFailed(proc[p]) =>
             /\ ~Running(proc[p])
             /\ proc[p].code # 0
             /\ ~proc[p].stats
             /\ ~proc[p].diag

\* a foreground command came back to the prompt after its inner fork failed
C12_ForegroundInnerForkFailed ==
    /\ ForegroundReturned
    /\ ev.reaped = ev.pid
    /\ InnerForkFailed(proc[ev.pid])
    /\ proc[ev.pid].code = EXIT_FAILURE

\* the slots the job lines of the last action show, in the order printed
ListedSlots == [k \in 1 .. Len(ev.out) |-> ev.out[k][2]]

\* C13: btasks prints one line for every slot that is occupied after its
\* reap pass, in ascending slot order, and the name on every job line is
\* the program name, argv[0], of the command that launched the job.
C13_ListShowsSlotsAndNames ==
    /\ ev.cmd = "btasks" =>
          /\ \A k \in 1 .. Len(ev.out) :
                ev.out[k][1] = "job" /\ ev.out[k][3] = bProcessIds[ListedSlots[k]]
          /\ {ListedSlots[k] : k \in 1 .. Len(ev.out)} = Occupied(bProcessIds)
          /\ \A k, m \in 1 .. Len(ev.out) : k < m => ListedSlots[k] < ListedSlots[m]
    /\ \A k \in JobLines :
          /\ proc[ev.out[k][3]].file # NULL
          /\ ev.out[k][4] = proc[ev.out[k][3]].file

\* the slots the reap passes of the last action reset
ClearedSlots == {c[1] : c \in ev.cleared}

\* the value updateBackgroundProcess returned to main in the last exit
ExitCount == IF pc = "exited" THEN 0 ELSE ev.out[Len(ev.out)][2]

\* C14: the count updateBackgroundProcess returns to exit is the number of
\* slots occupied when the pass ends, and every slot that was occupied
\* before exit is either reset or still occupied (and counted), never both.
C14_CountIsOccupiedSlots ==
    [][ cmds' = cmds + 1 /\ ev'.cmd = "exit"
        => /\ ExitCount' = Cardinality(Occupied(bProcessIds'))
           /\ Occupied(bProcessIds) = Occupied(bProcessIds') \cup ClearedSlots'
           /\ Occupied(bProcessIds') \cap ClearedSlots' = {} ]_vars

\* an exit whose passes reset some slots and counted others
C14_SomeClearedSomeCounted ==
    /\ ev.cmd = "exit"
    /\ pc = "prompt"
    /\ ClearedSlots # {}
    /\ ExitCount = Cardinality(Occupied(bProcessIds))
    /\ ExitCount > 0

\* the slots that are empty once a reap pass that started from the table
\* ids has reset the slots cleared
EmptyAfterReap(ids, cleared) == Slots \ (Occupied(ids) \ cleared)

\* the lowest slot of a non-empty set of slots
Lowest(S) == CHOOSE i \in S : \A j \in S : i <= j

\* C15: a background launch whose outer fork succeeds and that finds an empty
\* slot after its reap pass puts the pid of the new intermediate process in
\* the lowest empty slot and in no other, changes no other slot beyond the
\* resets of the reap pass, and announces that slot and that pid.
C15_AddUsesLowestEmptySlot ==
    [][ ( /\ cmds' = cmds + 1
          /\ ev'.cmd = "background"
          /\ ev'.pid # 0
          /\ EmptyAfterReap(bProcessIds, ClearedSlots') # {} )
        => LET s == Lowest(EmptyAfterReap(bProcessIds, ClearedSlots'))
           IN  /\ ev'.pid = nextPid
               /\ DOMAIN proc' = DOMAIN proc \cup {ev'.pid}
               /\ ev'.pid \notin DOMAIN proc
               /\ proc'[ev'.pid].gc = "none"
               /\ bProcessIds'[s] = ev'.pid
               /\ \A i \in Slots \ {s} :
                     bProcessIds'[i] = IF i \in ClearedSlots' THEN 0 ELSE bProcessIds[i]
               /\ \A i \in Slots \ {s} : bProcessIds'[i] # ev'.pid
               /\ ev'.out = << << "added", s, ev'.pid, NULL >> >> ]_vars

\* a background launch has been placed in a slot its reap pass had reset,
\* below a slot that is still occupied
C15_ReusedLowestSlot ==
    /\ ev.cmd = "background"
    /\ ev.pid # 0
    /\ ev.out # << >>
    /\ ev.out[1][2] \in ClearedSlots
    /\ bProcessIds[ev.out[1][2]] = ev.pid
    /\ \E i \in Slots : i > ev.out[1][2] /\ bProcessIds[i] # 0

\* where an intermediate process and a grandchild can be: at a statement of
\* runCommand's pid == 0 branch, in the program execvp started, or terminated
InRunCommand(r) ==
    /\ r.st \in {"forking", "waiting", "zombie", "reaped"}
    /\ r.gc \in {"none", "exec", "running", "zombie", "reaped"}

\* the process p takes a step of its own (or its grandchild does): anything
\* but the shell reaping it
ChildStep(p) ==
    \/ proc'[p].gc # proc[p].gc
    \/ proc'[p].st # proc[p].st /\ proc'[p].st # "reaped"

\* C16: an intermediate process and a grandchild are always inside
\* runCommand, in the program they exec, or terminated; a step of theirs
\* prints no prompt, reads no line and changes no slot, name or other state
\* of the shell process; and the shell leaves main only in an exit command.
C16_FailuresStayInTheirProcess ==
    /\ [](\A p \in DOMAIN proc : InRunCommand(proc[p]))
    /\ [][ \A p \in DOMAIN proc :
             ChildStep(p) => UNCHANGED << pc, cmds, ev, bProcessIds, bProcessNames, heap,
                                          errno, cwd, nextPid >> ]_vars
    /\ [][ pc' = "exited" /\ pc # "exited" => cmds' = cmds + 1 /\ ev'.cmd = "exit" ]_vars
    /\ [][ pc = "exited" => UNCHANGED << pc, cmds, ev, bProcessIds, bProcessNames >> ]_vars

\* the shell is at the prompt after one command ended in a failed inner
\* fork and another in a failed execvp
C16_ShellSurvivesFailures ==
    /\ pc = "prompt"
    /\ \E p, q \in DOMAIN proc :
          /\ InnerForkFailed(proc[p])
          /\ proc[q].diag
          /\ ~Running(proc[q])

\* the memory of the buffer of the line the last action read
LastBuffer == heap[malloc(Referenced(bProcessNames))]

\* the diagnostic that belongs to the error rc of a chdir
CdDiagnostic(rc) ==
    IF rc = ENOENT THEN "ENOENT"
    ELSE IF rc = EACCES THEN "EACCES"
    ELSE IF rc = ENOTDIR THEN "ENOTDIR"
    ELSE "Unhandled"

\* C17: a cd with a path leaves the shell at the prompt; if its chdir
\* succeeds nothing is printed and the working directory is the path; if it
\* fails the diagnostic of that failure is printed for that path and the
\* working directory is unchanged, whatever the shell did before.
C17_CdDiagnosticFromOwnChdir ==
    [][ cmds' = cmds + 1 /\ ev'.cmd = "cd"
        => \A line \in Lines :
              getCommand(line).mem = LastBuffer' /\ Arg(getCommand(line).cmd, 1) # NULL
              => LET p_path == Arg(getCommand(line).cmd, 1)
                     rc == chdir(p_path)
                 IN  /\ pc' = "prompt"
                     /\ IF rc = 0
                        THEN ev'.out = << >> /\ cwd' = p_path
                        ELSE /\ ev'.out = << << CdDiagnostic(rc), 0, 0, p_path >> >>
                             /\ cwd' = cwd ]_vars

\* the command of the process r is still executing: its grandchild is about
\* to exec or runs the program
Executing(r) == r.gc \in {"exec", "running"}

\* C18: an intermediate process whose inner fork succeeded prints the
\* statistics and terminates only once its grandchild has terminated; so no
\* slot holds the pid of a terminated process whose command still executes.
C18_IntermediateOutlivesGrandchild ==
    /\ \A p \in DOMAIN proc :
          BothForksSucceeded(proc[p]) /\ (proc[p].stats \/ ~Running(proc[p]))
          => ~Executing(proc[p]) /\ proc[p].gc = "reaped" /\ proc[p].stats
    /\ \A i \in Slots :
          bProcessIds[i] # 0 /\ Executing(proc[bProcessIds[i]])
          => Running(proc[bProcessIds[i]])

\* a slot holds the pid of an intermediate process that terminated after the
\* program of its grandchild had run and ended, while the process of a
\* foreground command is still waiting for its grandchild
C18_JobEndedAfterItsCommand ==
    /\ \E i \in Slots :
          /\ bProcessIds[i] # 0
          /\ proc[bProcessIds[i]].st = "zombie"
          /\ proc[bProcessIds[i]].gc = "reaped"
          /\ proc[bProcessIds[i]].stats
          /\ ~proc[bProcessIds[i]].diag
    /\ pc = "fgwait"
    /\ proc[ev.pid].st = "waiting"
    /\ Executing(proc[ev.pid])

\* C19: in every step an occupied slot keeps its pid, its name pointer and
\* the string the pointer leads to, unless a reap pass of the step resets
\* it; and an empty slot becomes occupied only by the background launch
\* that registers its new pid there.
C19_SlotStableUntilCleared ==
    [][ \A i \in Slots :
           /\ bProcessIds[i] # 0 =>
                 \/ /\ bProcessIds'[i] = bProcessIds[i]
                    /\ bProcessNames'[i] = bProcessNames[i]
                    /\ printfString(heap', bProcessNames'[i])
                          = printfString(heap, bProcessNames[i])
                 \/ cmds' = cmds + 1 /\ << i, bProcessIds[i] >> \in ev'.cleared
           /\ bProcessIds[i] = 0 /\ bProcessIds'[i] # 0 =>
                 /\ cmds' = cmds + 1
                 /\ ev'.cmd = "background"
                 /\ ev'.pid = bProcessIds'[i] ]_vars

\* a background launch whose reap pass reset nothing has taken a slot next
\* to an older job, which has kept its slot and its name
C19_OlderJobKeptItsSlot ==
    /\ ev.cmd = "background"
    /\ ev.pid # 0
    /\ ev.cleared = {}
    /\ ev.out # << >>
    /\ \E i \in Slots :
          /\ bProcessIds[i] \notin {0, ev.pid}
          /\ printfString(heap, bProcessNames[i]) = proc[bProcessIds[i]].file

\* C20: the vector every runCommand was called with (the copy its child got)
\* has a first element, a program name that is not NULL and is the file
\* execvp is given, and does not end with the ampersand.  (The element
\* after the last one is the NULL getCommand or main stored.)
C20_ArgvNonEmpty ==
    \A p \in DOMAIN proc :
       /\ proc[p].argv # << >>
       /\ Arg(proc[p].argv, 0) # NULL
       /\ Arg(proc[p].argv, 0) = proc[p].file
       /\ Arg(proc[p].argv, Len(proc[p].argv) - 1) # T_amp

====
